---- MODULE Spec2Model ----
(***************************************************************************)
(* Model of fuzzers/005-tilegrid/generate.py: the tile grid is grouped     *)
(* into segments, measured base addresses are propagated left/right and up *)
(* the interconnect columns, and the result is written onto the tiles.     *)
(*                                                                         *)
(* Strings whose characters the program inspects or orders (tile and       *)
(* segment names) are sequences of character codes; a frame address is an  *)
(* unbounded Python integer; a Python list is a sequence, a dict a         *)
(* function whose absent key is a missing domain element.                  *)
(***************************************************************************)
EXTENDS Integers, Sequences, FiniteSets, TLC

VARIABLES
    tiles,           \* load_tiles(): the list of tile records
    site_baseaddr,   \* load_baseaddrs(): site name -> frame-aligned address
    pc,              \* position in run()
    database,        \* tile name -> tile record
    tile_baseaddrs,  \* tile name -> block type -> <<frame, word>>
    tiles_by_grid,   \* <<x, y>> -> tile name
    segments,        \* segment name -> segment record
    seg_order,       \* insertion order of the keys of segments
    names,           \* the sorted key list the running pass iterates
    idx,             \* index of the next element of names
    walk,            \* locals of the walk of seg_base_addr_up_INT, with the
                     \* address it started from (frame0, word0)
    pre,             \* segment name -> its base addresses when the running pass began
    raised           \* the function the run was aborted in ("" while it runs)

vars == <<tiles, site_baseaddr, pc, database, tile_baseaddrs, tiles_by_grid,
          segments, seg_order, names, idx, walk, pre, raised>>

(***************************************************************************)
(* Bounds of the explored inputs.                                          *)
(***************************************************************************)
\* at most this many sites carry a measured address
MaxMeasured == 2
\* tall grids have 0..ExtraRows rows below the lowest measured row
ExtraRows == 1
\* the two distances between two measured rows of one column
GapLow == 10
GapHigh == 26

(***************************************************************************)
(* Program constants.                                                      *)
(***************************************************************************)
\* range(50): the number of rows one walk climbs
WalkLen == 50
\* if wordbase == 50: the word the walk steps over by one
SkipWord == 50
\* 0x80: the frame distance between the two sides of an interconnect pair
FrameStep == 128

Range(s) == {s[i] : i \in DOMAIN s}

Max(a, b) == IF a > b THEN a ELSE b

\* the value a dict lookup gives for an absent key where the code tests for it
Absent == <<>>

(***************************************************************************)
(* Block types and tile types.                                             *)
(***************************************************************************)
block_type_i2s == (0 :> "CLB_IO_CLK") @@ (1 :> "BLOCK_RAM") @@ (2 :> "CFG_CLB")

\* raised by block_type_i2s[block_type_i] for a code outside the table
KeyError == "KeyError"

addr2btype(base_addr) ==
    LET block_type_i == (base_addr \div 8388608) % 8
    IN  IF block_type_i \in DOMAIN block_type_i2s
        THEN block_type_i2s[block_type_i]
        ELSE KeyError

\* tile_type[:-2] and tile_type[-2:] of every tile type of the explored grids
Slice2 ==
    [ CLBLL_L |-> <<"CLBLL", "_L">>, CLBLL_R |-> <<"CLBLL", "_R">>,
      CLBLM_L |-> <<"CLBLM", "_L">>, CLBLM_R |-> <<"CLBLM", "_R">>,
      INT_L |-> <<"INT", "_L">>, INT_R |-> <<"INT", "_R">>,
      HCLK_L |-> <<"HCLK", "_L">>, HCLK_R |-> <<"HCLK", "_R">>,
      BRAM_L |-> <<"BRAM", "_L">>, BRAM_R |-> <<"BRAM", "_R">>,
      DSP_L |-> <<"DSP", "_L">>, DSP_R |-> <<"DSP", "_R">>,
      BRAM_INT_INTERFACE_L |-> <<"BRAM_INT_INTERFACE", "_L">>,
      BRAM_INT_INTERFACE_R |-> <<"BRAM_INT_INTERFACE", "_R">>,
      INT_INTERFACE_L |-> <<"INT_INTERFACE", "_L">>,
      INT_INTERFACE_R |-> <<"INT_INTERFACE", "_R">>,
      NULL |-> <<"NU", "LL">>, VBRK |-> <<"VB", "RK">> ]

nolr(tile_type) ==
    LET postfix == Slice2[tile_type][2]
    IN  IF postfix \in {"_L", "_R"} THEN Slice2[tile_type][1] ELSE tile_type

(***************************************************************************)
(* Names: strings as sequences of character codes.                         *)
(***************************************************************************)
\* Python's str < str: code point order, a proper prefix first
RECURSIVE StrLess(_, _)
StrLess(a, b) ==
    IF b = <<>> THEN FALSE
    ELSE IF a = <<>> THEN TRUE
    ELSE IF a[1] # b[1] THEN a[1] < b[1]
    ELSE StrLess(Tail(a), Tail(b))

\* the list s, of distinct names, with s[i] moved to position rank[i] + 1
Place(s, rank) == [k \in DOMAIN s |-> s[CHOOSE i \in DOMAIN s: rank[i] = k - 1]]

\* sorted(list of distinct names): each name goes behind the names less than it
sorted(s) ==
    Place(s, [i \in DOMAIN s |->
                 Cardinality({j \in DOMAIN s: StrLess(s[j], s[i])})] @@ <<>>)

\* "SEG_" + tile_name
SegName(tile_name) == <<83, 69, 71, 95>> \o tile_name

\* index of the first "_" of a name, 0 when it has none
RECURSIVE FirstUnderscore(_, _)
FirstUnderscore(s, i) ==
    IF i > Len(s) THEN 0
    ELSE IF s[i] = 95 THEN i
    ELSE FirstUnderscore(s, i + 1)

\* tile_name.replace("_", "%d_" % k, 1)
ReplaceFirst(s, k) ==
    LET p == FirstUnderscore(s, 1)
    IN  IF p = 0 THEN s
        ELSE SubSeq(s, 1, p - 1) \o <<48 + k, 95>> \o SubSeq(s, p + 1, Len(s))

(***************************************************************************)
(* The explored inputs: a tile list laid out in columns and rows, and the  *)
(* measured site addresses.                                                *)
(***************************************************************************)
\* first letter of the tile name of a tile type
Letter ==
    [ CLBLL_L |-> 67, CLBLL_R |-> 67, CLBLM_L |-> 77, CLBLM_R |-> 77,
      INT_L |-> 73, INT_R |-> 73, HCLK_L |-> 72, HCLK_R |-> 72,
      BRAM_L |-> 66, BRAM_R |-> 66, DSP_L |-> 68, DSP_R |-> 68,
      BRAM_INT_INTERFACE_L |-> 70, BRAM_INT_INTERFACE_R |-> 70,
      INT_INTERFACE_L |-> 70, INT_INTERFACE_R |-> 70,
      NULL |-> 78, VBRK |-> 86 ]

\* row kinds: "n" a row of the column types, "f" a row of filler tiles,
\* "h" a clock row (HCLK tiles in the interconnect columns)
TypeAt(cols, rows, x, y) ==
    LET c == cols[x + 1]
        kind == rows[y + 1]
    IN  CASE kind = "f" -> IF x % 2 = 0 THEN "NULL" ELSE "VBRK"
          [] kind = "h" -> IF c = "INT_L" THEN "HCLK_L"
                           ELSE IF c = "INT_R" THEN "HCLK_R" ELSE "NULL"
          [] OTHER -> IF nolr(c) \in {"BRAM", "DSP"}
                      THEN IF (Len(rows) - 1 - y) % 5 = 0 THEN c ELSE "NULL"
                      ELSE c

\* naming "down": the name's row index is grid_y; "up": it grows upwards, as
\* on the device; "flat": a name without an underscore
TileName(naming, type, x, y, H) ==
    CASE naming = "down" -> <<Letter[type], 95, 48 + x, 48 + y>>
      [] naming = "up" -> <<Letter[type], 95, 48 + x, 48 + (H - 1 - y)>>
      [] OTHER -> <<Letter[type], 48 + x, 48 + y>>

SitesOf(type, x, y) ==
    IF nolr(type) \in {"CLBLL", "CLBLM", "BRAM", "DSP"}
    THEN {<<x, y, 0>>, <<x, y, 1>>}
    ELSE {}

\* load_tiles: one record per line of the tile list, rows top to bottom
load_tiles(cols, rows, naming) ==
    LET W == Len(cols)
        H == Len(rows)
    IN  [n \in 1..(W * H) |->
            LET x == (n - 1) % W
                y == (n - 1) \div W
                t == TypeAt(cols, rows, x, y)
            IN  [type |-> t, name |-> TileName(naming, t, x, y, H),
                 grid_x |-> x, grid_y |-> y, sites |-> SitesOf(t, x, y)]]

\* frame & ~0x7f
FrameAlign(frame) == (frame \div 128) * 128

\* load_baseaddrs: the address read from each delta file, frame-aligned
load_baseaddrs(raw) == [s \in DOMAIN raw |-> FrameAlign(raw[s])]

(***************************************************************************)
(* The grids and measurements explored.  A scenario fixes the column       *)
(* types, the row kinds, the naming, the sites that may carry a            *)
(* measurement and the addresses the measurement files may hold.           *)
(***************************************************************************)
Rows(H, kind) == [y \in 1..H |-> kind]

\* the lowest row of kind "n"
SourceRow(rows) ==
    CHOOSE y \in 0..(Len(rows) - 1):
        /\ rows[y + 1] = "n"
        /\ \A z \in (y + 1)..(Len(rows) - 1): rows[z + 1] # "n"

\* the sites of row y that may be measured: the first site of every tile
\* and the second site of the leftmost tile that has sites
RowSites(cols, rows, y) ==
    LET xs == {x \in 0..(Len(cols) - 1): SitesOf(TypeAt(cols, rows, x, y), x, y) # {}}
    IN  {<<x, y, 0>> : x \in xs} \cup
        {<<x, y, 1>> : x \in {x \in xs: \A z \in xs: x <= z}}

SmallCols ==
    { <<"CLBLL_L", "INT_L">>,
      <<"CLBLL_L", "INT_L", "INT_R", "CLBLM_R">>,
      <<"CLBLM_L", "INT_L", "INT_R", "CLBLL_R">>,
      <<"CLBLL_L", "INT_L", "CLBLM_R">>,
      <<"CLBLL_L", "INT_L", "NULL", "VBRK">>,
      <<"CLBLL_L", "INT_L", "INT_R", "NULL">>,
      <<"CLBLL_L", "INT_L", "INT_L", "CLBLL_R">>,
      <<"CLBLM_L", "INT_R">>,
      <<"NULL", "INT_L">>,
      <<"BRAM_L", "BRAM_INT_INTERFACE_L", "INT_L">>,
      <<"INT_R", "INT_INTERFACE_R", "DSP_R">> }

SmallRows ==
    { <<"n">>, <<"f", "n">>, <<"n", "f">>, <<"n", "n">>, Rows(5, "n") }

\* raw frame addresses of the measurement files: 0x00020013, 0x00020080,
\* 0x00020100 (block type 0), 0x00800000 (block type 1), 0x01800000 (block
\* type 3), 0x00000000
SmallAddrs == {131091, 131200, 131328, 8388608, 25165824, 0}

SmallScenarios ==
    { [cols |-> c, rows |-> r, naming |-> nm,
       msites |-> RowSites(c, r, SourceRow(r)), addrs |-> SmallAddrs] :
      c \in SmallCols, r \in SmallRows, nm \in {"down", "flat"} }

\* a full clock region above the measured row, so that every walk stays on
\* the grid: one or two measured rows in a CLB column
TallCLB ==
    { [cols |-> <<"CLBLL_L", "INT_L">>,
       rows |-> Rows(WalkLen + 1 + e, "n"), naming |-> "up",
       msites |-> RowSites(<<"CLBLL_L", "INT_L">>, Rows(WalkLen + 1 + e, "n"), WalkLen),
       addrs |-> {131091, 8388608}] : e \in 0..ExtraRows }

TallTwo ==
    { [cols |-> <<"CLBLL_L", "INT_L">>,
       rows |-> Rows(WalkLen + 1 + g, "n"), naming |-> nm,
       msites |-> {<<0, WalkLen + g, 0>>, <<0, WalkLen, 0>>},
       addrs |-> {131091, 131328}] :
      g \in {GapLow, GapHigh}, nm \in {"down", "up"} }

\* 0x007FFF80: the last frame of block type 0
TallPair ==
    { [cols |-> <<"CLBLL_L", "INT_L", "INT_R", "CLBLM_R">>,
       rows |-> Rows(WalkLen + 1, "n"), naming |-> "up",
       msites |-> {<<0, WalkLen, 0>>, <<3, WalkLen, 0>>},
       addrs |-> {131091, 131200, 8388480}] }

TallBRAM ==
    { [cols |-> c,
       rows |-> <<"h">> \o Rows(WalkLen, "n"), naming |-> "up",
       msites |-> RowSites(c, <<"h">> \o Rows(WalkLen, "n"), WalkLen),
       addrs |-> {131091, 8388608}] :
      c \in { <<"BRAM_L", "BRAM_INT_INTERFACE_L", "INT_L">>,
              <<"CLBLM_L", "INT_L">> } }

Scenarios == SmallScenarios \cup TallCLB \cup TallTwo \cup TallPair \cup TallBRAM

\* the contents of the measurement files: at most MaxMeasured sites
Measurements(sc) ==
    UNION { [D -> sc.addrs] :
            D \in {D \in SUBSET sc.msites : Cardinality(D) <= MaxMeasured} }

(***************************************************************************)
(* Indexing the input.                                                     *)
(***************************************************************************)
make_database ==
    [nm \in {tiles[n].name : n \in DOMAIN tiles} |->
        LET tile == tiles[CHOOSE n \in DOMAIN tiles: tiles[n].name = nm]
        IN  [type |-> tile.type, grid_x |-> tile.grid_x, grid_y |-> tile.grid_y,
             segment |-> Absent, bits |-> Absent,
             frames |-> Absent, words |-> Absent]]

\* the sites of a tile that carry a measured address
MeasuredSites(tile) == tile.sites \cap DOMAIN site_baseaddr

\* make_tile_baseaddrs raises for a block type code outside the table and
\* for two sites of one tile with one block type
make_tile_baseaddrs_ok ==
    \A n \in DOMAIN tiles:
        /\ \A s \in MeasuredSites(tiles[n]):
              addr2btype(site_baseaddr[s]) # KeyError
        /\ \A s, t \in MeasuredSites(tiles[n]):
              s # t => addr2btype(site_baseaddr[s]) # addr2btype(site_baseaddr[t])

make_tile_baseaddrs ==
    LET has == {n \in DOMAIN tiles: MeasuredSites(tiles[n]) # {}}
    IN  [nm \in {tiles[n].name : n \in has} |->
            LET tile == tiles[CHOOSE n \in has: tiles[n].name = nm]
                m == MeasuredSites(tile)
            IN  [bt \in {addr2btype(site_baseaddr[s]) : s \in m} |->
                    <<site_baseaddr[CHOOSE s \in m:
                          addr2btype(site_baseaddr[s]) = bt], 0>>]]

make_tiles_by_grid ==
    [g \in {<<tiles[n].grid_x, tiles[n].grid_y>> : n \in DOMAIN tiles} |->
        tiles[CHOOSE n \in DOMAIN tiles:
                  <<tiles[n].grid_x, tiles[n].grid_y>> = g].name]

Init ==
    \E sc \in Scenarios:
        \E raw \in Measurements(sc):
            /\ tiles = load_tiles(sc.cols, sc.rows, sc.naming)
            /\ site_baseaddr = load_baseaddrs(raw)
            /\ pc = "index"
            /\ database = Absent
            /\ tile_baseaddrs = Absent
            /\ tiles_by_grid = Absent
            /\ segments = Absent
            /\ seg_order = <<>>
            /\ names = <<>>
            /\ idx = 1
            /\ walk = Absent
            /\ pre = Absent
            /\ raised = ""

\* run(), lines 441-443
Index ==
    /\ pc = "index"
    /\ database' = make_database
    /\ IF make_tile_baseaddrs_ok
       THEN /\ tile_baseaddrs' = make_tile_baseaddrs
            /\ tiles_by_grid' = make_tiles_by_grid
            /\ pc' = "make_segments"
       ELSE /\ pc' = "aborted"
            /\ UNCHANGED <<tile_baseaddrs, tiles_by_grid>>
    /\ raised' = IF make_tile_baseaddrs_ok THEN "" ELSE "make_tile_baseaddrs"
    /\ UNCHANGED <<tiles, site_baseaddr, segments, seg_order, names, idx, walk, pre>>

(***************************************************************************)
(* make_segments.  st is the state the loop threads: the database, the     *)
(* segments and their insertion order, and ok, false once an exception     *)
(* has been raised (the loop then leaves st as the exception left it).     *)
(***************************************************************************)
\* a variant of add_segment that leaves the owner of a tile that has one
add_segment_keep(st, name, tls, frames, words, baseaddr) ==
    IF name \in DOMAIN st.segs
    THEN [st EXCEPT !.ok = FALSE]
    ELSE [st EXCEPT
            !.segs = @ @@ (name :> [tiles |-> tls, frames |-> frames,
                                    words |-> words, baseaddr |-> baseaddr]),
            !.order = Append(@, name),
            !.db = [t \in DOMAIN @ |->
                      IF t \in Range(tls) /\ @[t].segment = Absent
                      THEN [@[t] EXCEPT !.segment = name]
                      ELSE @[t]]]

add_segment(st, name, tls, frames, words, baseaddr) ==
    IF name \in DOMAIN st.segs
    THEN [st EXCEPT !.ok = FALSE]
    ELSE [st EXCEPT
            !.segs = @ @@ (name :> [tiles |-> tls, frames |-> frames,
                                    words |-> words, baseaddr |-> baseaddr]),
            !.order = Append(@, name),
            !.db = [t \in DOMAIN @ |->
                      IF t \in Range(tls)
                      THEN [@[t] EXCEPT !.segment = name]
                      ELSE @[t]]]

\* tile_baseaddrs.get(tile_name, None)
SeedOf(tile_name) ==
    IF tile_name \in DOMAIN tile_baseaddrs THEN tile_baseaddrs[tile_name] ELSE Absent

\* a variant of process_clb whose segment lists the CLB tile alone
process_clb_alone(st, tile_name) ==
    add_segment(st, SegName(tile_name), <<tile_name>>, 36, 2, SeedOf(tile_name))

process_clb(st, tile_name) ==
    LET tile == st.db[tile_name]
        g == IF tile.type \in {"CLBLL_L", "CLBLM_L"}
             THEN <<tile.grid_x + 1, tile.grid_y>>
             ELSE <<tile.grid_x - 1, tile.grid_y>>
    IN  IF g \notin DOMAIN tiles_by_grid
        THEN [st EXCEPT !.ok = FALSE]
        ELSE add_segment(st, SegName(tile_name),
                         <<tile_name, tiles_by_grid[g]>>, 36, 2, SeedOf(tile_name))

process_hclk(st, tile_name) ==
    add_segment(st, SegName(tile_name), <<tile_name>>, 26, 1, Absent)

\* a variant of the iteration that seeds every one of the five segments
bram_dsp_k_seeded(st, tile_name, k) ==
    LET tile == st.db[tile_name]
        sign == IF tile.type \in {"BRAM_L", "DSP_L"} THEN 1 ELSE -1
        gi == <<tile.grid_x + sign, tile.grid_y - k>>
        gt == <<tile.grid_x + 2 * sign, tile.grid_y - k>>
    IN  IF gi \notin DOMAIN tiles_by_grid \/ gt \notin DOMAIN tiles_by_grid
        THEN [st EXCEPT !.ok = FALSE]
        ELSE add_segment(st, SegName(ReplaceFirst(tile_name, k)),
                         IF k = 0
                         THEN <<tile_name, tiles_by_grid[gi], tiles_by_grid[gt]>>
                         ELSE <<tiles_by_grid[gi], tiles_by_grid[gt]>>,
                         28, 2, SeedOf(tile_name))

\* one iteration of the loop over k
bram_dsp_k(st, tile_name, k) ==
    LET tile == st.db[tile_name]
        sign == IF tile.type \in {"BRAM_L", "DSP_L"} THEN 1 ELSE -1
        gi == <<tile.grid_x + sign, tile.grid_y - k>>
        gt == <<tile.grid_x + 2 * sign, tile.grid_y - k>>
    IN  IF gi \notin DOMAIN tiles_by_grid \/ gt \notin DOMAIN tiles_by_grid
        THEN [st EXCEPT !.ok = FALSE]
        ELSE add_segment(st, SegName(ReplaceFirst(tile_name, k)),
                         IF k = 0
                         THEN <<tile_name, tiles_by_grid[gi], tiles_by_grid[gt]>>
                         ELSE <<tiles_by_grid[gi], tiles_by_grid[gt]>>,
                         28, 2,
                         IF k = 0 THEN SeedOf(tile_name) ELSE Absent)

RECURSIVE process_bram_dsp(_, _, _)
process_bram_dsp(st, tile_name, k) ==
    IF k = 5 \/ ~st.ok THEN st
    ELSE process_bram_dsp(bram_dsp_k(st, tile_name, k), tile_name, k + 1)

\* the dispatch on nolr(tile_type)
process_tile(st, tile_name) ==
    LET family == nolr(st.db[tile_name].type)
    IN  CASE family \in {"CLBLL", "CLBLM"} -> process_clb(st, tile_name)
          [] family = "HCLK" -> process_hclk(st, tile_name)
          [] family \in {"BRAM", "DSP"} -> process_bram_dsp(st, tile_name, 0)
          [] OTHER -> st

\* the loop over database.items(): the tiles lo..hi of the tile list, in
\* order, the first half before the second
RECURSIVE make_segments(_, _, _)
make_segments(st, lo, hi) ==
    IF lo > hi \/ ~st.ok THEN st
    ELSE IF lo = hi THEN process_tile(st, tiles[lo].name)
    ELSE make_segments(make_segments(st, lo, (lo + hi) \div 2),
                       (lo + hi) \div 2 + 1, hi)

\* run(), lines 445-446, and the head of seg_base_addr_lr_INT, line 268
MakeSegments ==
    /\ pc = "make_segments"
    /\ \E st \in {make_segments([db |-> database, segs |-> Absent,
                                      order |-> <<>>, ok |-> TRUE],
                                     1, Len(tiles))}:
           /\ database' = st.db
           /\ segments' = st.segs
           /\ seg_order' = st.order
           /\ IF st.ok
              THEN /\ pc' = "lr"
                   /\ names' = sorted(st.order)
                   /\ idx' = 1
                   /\ raised' = ""
              ELSE /\ pc' = "aborted"
                   /\ raised' = "make_segments"
                   /\ UNCHANGED <<names, idx>>
           /\ pre' = [n \in DOMAIN segments' |-> segments'[n].baseaddr]
    /\ UNCHANGED <<tiles, site_baseaddr, tile_baseaddrs, tiles_by_grid, walk>>

(***************************************************************************)
(* Propagation.                                                            *)
(***************************************************************************)
\* the list get_inttile builds before its assertion
inttiles(segment) ==
    SelectSeq(segment.tiles, LAMBDA t: database[t].type \in {"INT_L", "INT_R"})

\* a variant of lr_value that adds the frame step on either side
lr_value_add(int_type, base) == <<base[1] + FrameStep, base[2]>>

\* the value seg_base_addr_lr_INT derives from <<framebase, wordbase>> of a
\* segment whose interconnect tile has the given type
lr_value(int_type, base) ==
    IF int_type = "INT_L"
    THEN <<base[1] + FrameStep, base[2]>>
    ELSE <<base[1] - FrameStep, base[2]>>

\* a variant of lr_assign that assigns without looking
lr_assign_over(seg_baseaddrs, value) ==
    [ok |-> TRUE, baseaddr |-> ("CLB_IO_CLK" :> value) @@ seg_baseaddrs]

\* a variant of lr_assign that raises on every populated entry
lr_assign_once(seg_baseaddrs, value) ==
    IF "CLB_IO_CLK" \in DOMAIN seg_baseaddrs
    THEN [ok |-> FALSE, baseaddr |-> seg_baseaddrs]
    ELSE [ok |-> TRUE, baseaddr |-> ("CLB_IO_CLK" :> value) @@ seg_baseaddrs]

\* lines 313-323: ok is false when the assertion fails
lr_assign(seg_baseaddrs, value) ==
    IF "CLB_IO_CLK" \in DOMAIN seg_baseaddrs
    THEN [ok |-> seg_baseaddrs["CLB_IO_CLK"] = value, baseaddr |-> seg_baseaddrs]
    ELSE [ok |-> TRUE, baseaddr |-> ("CLB_IO_CLK" :> value) @@ seg_baseaddrs]

\* one iteration of the loop of seg_base_addr_lr_INT over the sorted names;
\* only the CLB_IO_CLK entry of a segment gets past line 278
LrResult(segment_name) ==
    LET segment == segments[segment_name]
        ints == inttiles(segment)
        it == database[ints[1]]
        g == IF it.type = "INT_L"
             THEN <<it.grid_x + 1, it.grid_y>>
             ELSE <<it.grid_x - 1, it.grid_y>>
        tile == database[tiles_by_grid[g]]
        r == lr_assign(segments[tile.segment].baseaddr,
                       lr_value(it.type, segment.baseaddr["CLB_IO_CLK"]))
    IN  IF "CLB_IO_CLK" \notin DOMAIN segment.baseaddr
        THEN [ok |-> TRUE, segs |-> segments]
        ELSE IF Len(ints) # 1
        THEN [ok |-> FALSE, segs |-> segments]
        ELSE IF g \notin DOMAIN tiles_by_grid
        THEN [ok |-> TRUE, segs |-> segments]
        ELSE IF tile.type # (IF it.type = "INT_L" THEN "INT_R" ELSE "INT_L")
        THEN [ok |-> FALSE, segs |-> segments]
        ELSE IF tile.segment = Absent
        THEN [ok |-> FALSE, segs |-> segments]
        ELSE [ok |-> r.ok,
              segs |-> [segments EXCEPT ![tile.segment].baseaddr = r.baseaddr]]

LrStep ==
    /\ pc = "lr"
    /\ idx <= Len(names)
    /\ \E r \in {LrResult(names[idx])}:
           /\ segments' = r.segs
           /\ IF r.ok
              THEN /\ idx' = idx + 1
                   /\ UNCHANGED <<pc, raised>>
              ELSE /\ pc' = "aborted"
                   /\ raised' = "seg_base_addr_lr_INT"
                   /\ idx' = idx
    /\ UNCHANGED <<tiles, site_baseaddr, database, tile_baseaddrs, tiles_by_grid,
                   seg_order, names, walk, pre>>

\* lines 335-338: the names of the segments that have a "baseaddr" key
src_segment_names ==
    SelectSeq(seg_order, LAMBDA n: segments[n].baseaddr # Absent)

\* the lateral pass has returned; lines 335-343 of seg_base_addr_up_INT
UpSnapshot ==
    /\ pc = "lr"
    /\ idx > Len(names)
    /\ names' = sorted(src_segment_names)
    /\ idx' = 1
    /\ pc' = "up"
    /\ pre' = [n \in DOMAIN segments |-> segments[n].baseaddr]
    /\ UNCHANGED <<tiles, site_baseaddr, database, tile_baseaddrs, tiles_by_grid,
                   segments, seg_order, walk, raised>>

\* lines 344-361: the next source segment; its address is read here
UpSource ==
    /\ pc = "up"
    /\ idx <= Len(names)
    /\ LET src_segment == segments[names[idx]]
           ints == inttiles(src_segment)
       IN  IF "CLB_IO_CLK" \notin DOMAIN src_segment.baseaddr
           THEN /\ idx' = idx + 1
                /\ UNCHANGED <<pc, walk, raised>>
           ELSE IF Len(ints) # 1
           THEN /\ pc' = "aborted"
                /\ raised' = "seg_base_addr_up_INT"
                /\ UNCHANGED <<idx, walk>>
           ELSE /\ pc' = "walk"
                /\ walk' = [src |-> names[idx],
                            i |-> 0,
                            grid_x |-> database[ints[1]].grid_x,
                            grid_y |-> database[ints[1]].grid_y,
                            framebase |-> src_segment.baseaddr["CLB_IO_CLK"][1],
                            wordbase |-> src_segment.baseaddr["CLB_IO_CLK"][2],
                            frame0 |-> src_segment.baseaddr["CLB_IO_CLK"][1],
                            word0 |-> src_segment.baseaddr["CLB_IO_CLK"][2]]
                /\ UNCHANGED <<idx, raised>>
    /\ UNCHANGED <<tiles, site_baseaddr, database, tile_baseaddrs, tiles_by_grid,
                   segments, seg_order, names, pre>>

\* a variant of step_word that steps by one from word 50 on
step_word_from(wordbase) ==
    IF wordbase >= SkipWord THEN wordbase + 1 ELSE wordbase + 2

\* lines 367-370
step_word(wordbase) ==
    IF wordbase = SkipWord THEN wordbase + 1 ELSE wordbase + 2

\* lines 375-376
up_assign(seg_baseaddrs, value) ==
    ("CLB_IO_CLK" :> value) @@ seg_baseaddrs

\* lines 363-376: one iteration of the loop over i
UpStep ==
    /\ pc = "walk"
    /\ LET g == <<walk.grid_x, walk.grid_y - 1>>
           w == step_word(walk.wordbase)
       IN  IF g \notin DOMAIN tiles_by_grid
           THEN /\ pc' = "aborted"
                /\ raised' = "seg_base_addr_up_INT"
                /\ UNCHANGED <<segments, walk, idx>>
           ELSE IF database[tiles_by_grid[g]].segment = Absent
           THEN /\ pc' = "aborted"
                /\ raised' = "seg_base_addr_up_INT"
                /\ UNCHANGED <<segments, walk, idx>>
           ELSE /\ segments' =
                      [segments EXCEPT ![database[tiles_by_grid[g]].segment].baseaddr =
                          up_assign(@, <<walk.framebase, w>>)]
                /\ walk' = [walk EXCEPT !.i = @ + 1, !.grid_y = @ - 1, !.wordbase = w]
                /\ IF walk.i + 1 = WalkLen
                   THEN /\ pc' = "up"
                        /\ idx' = idx + 1
                   ELSE UNCHANGED <<pc, idx>>
                /\ UNCHANGED raised
    /\ UNCHANGED <<tiles, site_baseaddr, database, tile_baseaddrs, tiles_by_grid,
                   seg_order, names, pre>>

(***************************************************************************)
(* Bit annotation.                                                         *)
(***************************************************************************)
\* the digits of "%X" % n, n >= 0, as character codes
RECURSIVE HexDigits(_)
HexDigits(n) ==
    LET d == n % 16
        c == IF d < 10 THEN 48 + d ELSE 55 + d
    IN  IF n < 16 THEN <<c>> ELSE HexDigits(n \div 16) \o <<c>>

\* '0x%08X' % baseaddr
Hex08(baseaddr) ==
    LET ds == HexDigits(baseaddr)
    IN  <<48, 120>> \o [k \in 1..(Max(8, Len(ds)) - Len(ds)) |-> 48] \o ds

\* the height table of add_bits; None for a family it does not list
None == 0 - 1

height_of(tile_type) ==
    LET family == nolr(tile_type)
    IN  CASE family \in {"CLBLL", "CLBLM", "INT"} -> 2
          [] family = "HCLK" -> 1
          [] family \in {"BRAM", "DSP"} -> 10
          [] family \in {"INT_INTERFACE", "BRAM_INT_INTERFACE"} -> 0
          [] OTHER -> None

\* the key add_tile_bits files the entry under
bits_key(block_type, baseaddr) == addr2btype(baseaddr)

\* add_tile_bits on the record of one tile
add_tile_bits(st, tile_name, block_type, baseaddr, offset, height) ==
    LET key == bits_key(block_type, baseaddr)
    IN  IF key = KeyError \/ key \in DOMAIN st.db[tile_name].bits
        THEN [st EXCEPT !.ok = FALSE]
        ELSE [st EXCEPT !.db[tile_name].bits =
                 (key :> [baseaddr |-> Hex08(baseaddr), offset |-> offset,
                          height |-> height]) @@ @]

\* the loop over the tiles of one segment for one of its addresses
RECURSIVE bits_tiles(_, _, _, _, _)
bits_tiles(st, tls, k, block_type, base) ==
    IF k > Len(tls) \/ ~st.ok THEN st
    ELSE LET height == height_of(st.db[tls[k]].type)
         IN  bits_tiles(
                 IF height = None THEN [st EXCEPT !.ok = FALSE]
                 ELSE IF height # 0
                 THEN add_tile_bits(st, tls[k], block_type, base[1], base[2], height)
                 ELSE st,
                 tls, k + 1, block_type, base)

\* the block types of a segment in the order the loop meets them; the order
\* decides only which of several exceptions is raised
BlockTypes(baseaddr) ==
    SelectSeq(<<"BLOCK_RAM", "CFG_CLB", "CLB_IO_CLK">>,
              LAMBDA bt: bt \in DOMAIN baseaddr)

RECURSIVE bits_blocks(_, _, _, _)
bits_blocks(st, segment, bts, k) ==
    IF k > Len(bts) \/ ~st.ok THEN st
    ELSE bits_blocks(bits_tiles(st, segment.tiles, 1, bts[k], segment.baseaddr[bts[k]]),
                     segment, bts, k + 1)

\* a variant of bits_segment that passes over a segment without the key
bits_segment_skip(st, segment) ==
    IF segment.baseaddr = Absent
    THEN st
    ELSE bits_blocks(st, segment, BlockTypes(segment.baseaddr), 1)

\* segments[segment_name]["baseaddr"] raises for a segment without the key
bits_segment(st, segment) ==
    IF segment.baseaddr = Absent
    THEN [st EXCEPT !.ok = FALSE]
    ELSE bits_blocks(st, segment, BlockTypes(segment.baseaddr), 1)

\* the loop over segments.keys(): the segments lo..hi in the order of their
\* creation, the first half before the second
RECURSIVE add_bits(_, _, _)
add_bits(st, lo, hi) ==
    IF lo > hi \/ ~st.ok THEN st
    ELSE IF lo = hi THEN bits_segment(st, segments[seg_order[lo]])
    ELSE add_bits(add_bits(st, lo, (lo + hi) \div 2), (lo + hi) \div 2 + 1, hi)

\* the vertical pass has returned; run(), line 452
AddBits ==
    /\ pc = "up"
    /\ idx > Len(names)
    /\ \E st \in {add_bits([db |-> database, ok |-> TRUE], 1, Len(seg_order))}:
           /\ database' = st.db
           /\ pc' = IF st.ok THEN "annotate" ELSE "aborted"
           /\ raised' = IF st.ok THEN "" ELSE "add_bits"
    /\ UNCHANGED <<tiles, site_baseaddr, tile_baseaddrs, tiles_by_grid, segments,
                   seg_order, names, idx, walk, pre>>

\* run(), line 453
AnnotateSegments ==
    /\ pc = "annotate"
    /\ database' =
          [t \in DOMAIN database |->
              IF database[t].segment # Absent
              THEN [database[t] EXCEPT
                      !.frames = segments[database[t].segment].frames,
                      !.words = segments[database[t].segment].words]
              ELSE database[t]]
    /\ pc' = "dump"
    /\ UNCHANGED <<tiles, site_baseaddr, tile_baseaddrs, tiles_by_grid, segments,
                   seg_order, names, idx, walk, pre, raised>>

\* run(), lines 456-461: the database is written out
Dump ==
    /\ pc = "dump"
    /\ pc' = "done"
    /\ UNCHANGED <<tiles, site_baseaddr, database, tile_baseaddrs, tiles_by_grid,
                   segments, seg_order, names, idx, walk, pre, raised>>

(***************************************************************************)
(* Positions of run() the properties speak about.                          *)
(***************************************************************************)
\* make_segments has returned
Constructed ==
    /\ pc \notin {"index", "make_segments"}
    /\ raised \notin {"make_tile_baseaddrs", "make_segments"}

\* make_segments has just returned
JustConstructed == pc = "lr" /\ idx = 1

\* seg_base_addr_lr_INT has just returned
LateralDone == pc = "lr" /\ idx > Len(names)

\* add_bits has returned
Annotated == pc \in {"annotate", "dump", "done"}

HoldsCLB(baseaddr) == "CLB_IO_CLK" \in DOMAIN baseaddr

\* the coordinate across the interconnect boundary of a segment with one
\* interconnect tile
Across(s) ==
    LET it == database[inttiles(segments[s])[1]]
    IN  IF it.type = "INT_L" THEN <<it.grid_x + 1, it.grid_y>>
        ELSE <<it.grid_x - 1, it.grid_y>>

\* the address mirrored across the boundary
Mirrored(s) ==
    LET it == database[inttiles(segments[s])[1]]
        a == segments[s].baseaddr["CLB_IO_CLK"]
    IN  IF it.type = "INT_L" THEN <<a[1] + 128, a[2]>> ELSE <<a[1] - 128, a[2]>>

\* the segment owning the tile across the boundary
OwnerAcross(s) == database[tiles_by_grid[Across(s)]].segment

\* the next lateral iteration has a source whose destination is off the grid
LrEdge ==
    /\ pc = "lr" /\ idx <= Len(names)
    /\ HoldsCLB(segments[names[idx]].baseaddr)
    /\ Len(inttiles(segments[names[idx]])) = 1
    /\ Across(names[idx]) \notin DOMAIN tiles_by_grid

\* the next lateral iteration derives an address for a segment that holds one
LrConverge ==
    /\ pc = "lr" /\ idx <= Len(names)
    /\ HoldsCLB(segments[names[idx]].baseaddr)
    /\ Len(inttiles(segments[names[idx]])) = 1
    /\ Across(names[idx]) \in DOMAIN tiles_by_grid
    /\ database[tiles_by_grid[Across(names[idx])]].type \in {"INT_L", "INT_R"}
    /\ database[tiles_by_grid[Across(names[idx])]].type #
          database[inttiles(segments[names[idx]])[1]].type
    /\ OwnerAcross(names[idx]) # Absent
    /\ HoldsCLB(segments[OwnerAcross(names[idx])].baseaddr)

\* every populated (segment, block type) keeps its value in the next state
Preserved ==
    \A s \in DOMAIN segments:
        \A bt \in DOMAIN segments[s].baseaddr:
            /\ s \in DOMAIN segments'
            /\ bt \in DOMAIN segments'[s].baseaddr
            /\ segments'[s].baseaddr[bt] = segments[s].baseaddr[bt]

(***************************************************************************)
(* C1: the 4-tile grid.                                                    *)
(***************************************************************************)
\* a tile type whose family creates no segment
Filler(type) == nolr(type) \notin {"CLBLL", "CLBLM", "HCLK", "BRAM", "DSP"}

\* tiles[c] is a left CLB tile, tiles[i] its interconnect neighbour, the other
\* two tiles are fillers and the one measured address is a CLB_IO_CLK
\* address on the CLB tile
C1Tiles(c, i) ==
    /\ Len(tiles) = 4
    /\ tiles[c].type \in {"CLBLL_L", "CLBLM_L"}
    /\ nolr(tiles[i].type) = "INT"
    /\ tiles[i].grid_x = tiles[c].grid_x + 1
    /\ tiles[i].grid_y = tiles[c].grid_y
    /\ \A o \in DOMAIN tiles \ {c, i}: Filler(tiles[o].type)
    /\ Cardinality(DOMAIN site_baseaddr) = 1
    /\ \A s \in DOMAIN site_baseaddr:
          /\ s \in tiles[c].sites
          /\ addr2btype(site_baseaddr[s]) = "CLB_IO_CLK"

\* the segment of the claim exists, with its tile list and sizes
C1Segment(c, i) ==
    /\ SegName(tiles[c].name) \in DOMAIN segments
    /\ segments[SegName(tiles[c].name)].tiles = <<tiles[c].name, tiles[i].name>>
    /\ segments[SegName(tiles[c].name)].frames = 36
    /\ segments[SegName(tiles[c].name)].words = 2

C1Bits(c, i) ==
    \A t \in {tiles[c].name, tiles[i].name}:
        /\ database[t].bits # Absent
        /\ \A bt \in DOMAIN database[t].bits: database[t].bits[bt].height = 2

\* C1 as claimed: on the 4-tile grid run() does not abort, and once it has
\* written the database the segment SEG_<clb> lists the CLB tile and the
\* interconnect tile with frames=36, words=2 and both tiles carry a bits
\* entry of height 2.
C1_Original ==
    Len(tiles) = 4 => \A c, i \in DOMAIN tiles:
        C1Tiles(c, i) =>
            /\ pc # "aborted"
            /\ pc = "done" => C1Segment(c, i) /\ C1Bits(c, i)

\* C1 amended: on the 4-tile grid make_segments yields the segment SEG_<clb>
\* listing the CLB tile and the interconnect tile with frames=36, words=2,
\* seeded with the measured address; run() never returns from the
\* propagation passes (it is aborted in seg_base_addr_lr_INT or in
\* seg_base_addr_up_INT, whose 50-row walk has no tiles to climb), so no
\* tile ever carries a bits entry and nothing is written.
C1_Amended ==
    Len(tiles) = 4 => \A c, i \in DOMAIN tiles:
        C1Tiles(c, i) =>
            /\ Constructed =>
                  /\ C1Segment(c, i)
                  /\ HoldsCLB(segments[SegName(tiles[c].name)].baseaddr)
            /\ ~Annotated
            /\ ~(pc = "up" /\ idx > Len(names))
            /\ raised \in {"", "seg_base_addr_lr_INT", "seg_base_addr_up_INT"}
            /\ database # Absent => \A t \in DOMAIN database: database[t].bits = Absent

C1_Witness ==
    Len(tiles) = 4 /\ \E c, i \in DOMAIN tiles:
        /\ C1Tiles(c, i)
        /\ pc = "aborted"
        /\ raised = "seg_base_addr_up_INT"
        /\ C1Segment(c, i)

(***************************************************************************)
(* C2: populated addresses are not replaced.                               *)
(***************************************************************************)
\* C2 as claimed: no step of the pipeline replaces a populated (segment,
\* block type) address by a different one.
C2_Original == [][Preserved]_vars

\* C2 amended: every step outside the walk of the vertical pass keeps each
\* populated (segment, block type) address, and a lateral step that derives
\* a differing address for a populated segment aborts the run; the walk of
\* the vertical pass assigns unconditionally.
C2_Amended ==
    [][ pc # "walk" =>
          /\ Preserved
          /\ (LrConverge /\ segments[OwnerAcross(names[idx])].baseaddr["CLB_IO_CLK"]
                              # Mirrored(names[idx]))
                => pc' = "aborted" ]_vars

\* the lateral pass was aborted on a differing address
C2_Witness ==
    /\ pc = "aborted"
    /\ raised = "seg_base_addr_lr_INT"
    /\ Len(inttiles(segments[names[idx]])) = 1
    /\ Across(names[idx]) \in DOMAIN tiles_by_grid
    /\ OwnerAcross(names[idx]) # Absent
    /\ HoldsCLB(segments[OwnerAcross(names[idx])].baseaddr)
    /\ segments[OwnerAcross(names[idx])].baseaddr["CLB_IO_CLK"] # Mirrored(names[idx])

(***************************************************************************)
(* C3: the vertical pass and its snapshot.                                 *)
(***************************************************************************)
\* C3 as claimed: every walk of the vertical pass starts from the address
\* its source segment held when the pass began (so every address the walk
\* writes has that frame and a word stepped from that word), and a segment
\* without an address when the pass began is never a source.
C3_Claim ==
    pc = "walk" =>
        /\ HoldsCLB(pre[walk.src])
        /\ walk.frame0 = pre[walk.src]["CLB_IO_CLK"][1]
        /\ walk.word0 = pre[walk.src]["CLB_IO_CLK"][2]

(***************************************************************************)
(* C4: tiles and their owning segment.                                     *)
(***************************************************************************)
\* the segments whose tile list holds t
ListedBy(t) == {s \in DOMAIN segments: t \in Range(segments[s].tiles)}

\* position of a segment in the order of creation
Created(s) == CHOOSE k \in DOMAIN seg_order: seg_order[k] = s

\* C4 as claimed: when make_segments has returned every tile listed by a segment records
\* that segment's name as its owner.
C4_Original ==
    JustConstructed =>
        \A s \in DOMAIN segments:
            \A t \in Range(segments[s].tiles): database[t].segment = s

\* C4 amended: when make_segments has returned a tile listed by no segment records no
\* owner, and a tile listed by segments records the one created last among
\* them (hence the only one, when it is listed once); make_segments does not
\* keep a tile out of the tile lists of two segments.
C4_Amended ==
    JustConstructed =>
        \A t \in DOMAIN database:
            IF ListedBy(t) = {}
            THEN database[t].segment = Absent
            ELSE /\ database[t].segment \in ListedBy(t)
                 /\ \A s \in ListedBy(t): Created(s) <= Created(database[t].segment)

\* a tile is in the tile lists of two segments
C4_Witness ==
    /\ JustConstructed
    /\ \E t \in DOMAIN database: Cardinality(ListedBy(t)) = 2

(***************************************************************************)
(* C5, C6: the lateral pass.                                               *)
(***************************************************************************)
\* C5: when the lateral pass has returned, every segment that held a
\* CLB_IO_CLK address <<f, w>> when it began and whose interconnect tile has
\* its neighbour across the boundary on the grid finds the segment owning
\* that neighbour holding <<f + 0x80, w>> (INT_L) or <<f - 0x80, w>> (INT_R);
\* an iteration whose neighbour coordinate is off the grid changes no
\* segment and raises nothing.
C5_Lateral ==
    /\ [](LateralDone =>
            \A s \in DOMAIN segments:
                (HoldsCLB(pre[s]) /\ Across(s) \in DOMAIN tiles_by_grid) =>
                    /\ HoldsCLB(segments[OwnerAcross(s)].baseaddr)
                    /\ segments[OwnerAcross(s)].baseaddr["CLB_IO_CLK"] = Mirrored(s))
    /\ [][LrEdge => segments' = segments /\ pc' = "lr" /\ idx' = idx + 1]_vars

\* the pass has given an address to a segment that had none
C5_Witness ==
    /\ LateralDone
    /\ \E s \in DOMAIN segments:
          /\ HoldsCLB(pre[s])
          /\ Across(s) \in DOMAIN tiles_by_grid
          /\ ~HoldsCLB(pre[OwnerAcross(s)])
          /\ segments[OwnerAcross(s)].baseaddr["CLB_IO_CLK"] = Mirrored(s)

\* C6: a lateral iteration that derives an address for a segment already
\* holding one leaves every segment as it is; it goes on to the next
\* segment when the two addresses are equal and aborts the run when they
\* differ.
C6_Converge ==
    [][ LrConverge =>
          /\ segments' = segments
          /\ IF segments[OwnerAcross(names[idx])].baseaddr["CLB_IO_CLK"]
                  = Mirrored(names[idx])
             THEN pc' = "lr" /\ idx' = idx + 1 /\ raised' = ""
             ELSE pc' = "aborted" ]_vars

\* an iteration has met an equal address: both segments held theirs when
\* the pass began
C6_Witness ==
    /\ pc = "lr"
    /\ idx > 1
    /\ HoldsCLB(pre[names[idx - 1]])
    /\ Len(inttiles(segments[names[idx - 1]])) = 1
    /\ Across(names[idx - 1]) \in DOMAIN tiles_by_grid
    /\ HoldsCLB(pre[OwnerAcross(names[idx - 1])])
    /\ pre[OwnerAcross(names[idx - 1])]["CLB_IO_CLK"] = Mirrored(names[idx - 1])

(***************************************************************************)
(* C7: the word offsets of a walk.                                         *)
(***************************************************************************)
\* the running offset of a walk from w0 has been 50 before one of its first
\* i steps
Crossed(w0, i) == w0 % 2 = 0 /\ w0 <= 50 /\ (50 - w0) \div 2 < i

\* C7: a walk makes 50 steps, one row up each; after i steps from word
\* offset w0 the offset is w0 + 2i, less one once the running offset has
\* been 50 (so w0 + 100 or w0 + 99 after the 50th), and the address written
\* by the step is the source's frame with that offset.
C7_Walk ==
    walk # Absent =>
        /\ walk.i \in 0..WalkLen
        /\ pc = "walk" => walk.i < WalkLen
        /\ (walk.i < WalkLen /\ pc # "walk") => pc = "aborted"
        /\ walk.grid_x = database[inttiles(segments[walk.src])[1]].grid_x
        /\ walk.grid_y = database[inttiles(segments[walk.src])[1]].grid_y - walk.i
        /\ walk.wordbase = walk.word0 + 2 * walk.i
                             - (IF Crossed(walk.word0, walk.i) THEN 1 ELSE 0)
        /\ walk.i = WalkLen =>
              walk.wordbase = IF Crossed(walk.word0, WalkLen)
                              THEN walk.word0 + 99 ELSE walk.word0 + 100
        /\ (walk.i > 0 /\ pc = "walk") =>
              segments[database[tiles_by_grid[<<walk.grid_x, walk.grid_y>>]].segment]
                  .baseaddr["CLB_IO_CLK"] = <<walk.frame0, walk.wordbase>>

\* a walk of 50 steps whose running offset was never 50
C7_Witness ==
    /\ walk # Absent
    /\ walk.i = WalkLen
    /\ walk.wordbase = walk.word0 + 100

(***************************************************************************)
(* C8: the bits entries.                                                   *)
(***************************************************************************)
\* C8 as claimed: after add_bits every member tile of nonzero height of a
\* segment holding <<f, w>> under block type B has a bits entry under B with
\* baseaddr f, offset w and its height, and a member tile of height 0 has
\* no entry.
C8_Claim ==
    Annotated =>
        \A s \in DOMAIN segments:
            \A bt \in DOMAIN segments[s].baseaddr:
                \A t \in Range(segments[s].tiles):
                    IF height_of(database[t].type) = 0
                    THEN database[t].bits = Absent
                    ELSE /\ bt \in DOMAIN database[t].bits
                         /\ database[t].bits[bt] =
                               [baseaddr |-> Hex08(segments[s].baseaddr[bt][1]),
                                offset |-> segments[s].baseaddr[bt][2],
                                height |-> height_of(database[t].type)]

(***************************************************************************)
(* C9: the segments of a BRAM/DSP tile.                                    *)
(***************************************************************************)
Anchors == {n \in DOMAIN tiles: nolr(tiles[n].type) \in {"BRAM", "DSP"}}

\* the tile list the claim gives segment k of anchor tiles[n]
AnchorTiles(n, k) ==
    LET sign == IF tiles[n].type \in {"BRAM_L", "DSP_L"} THEN 1 ELSE 0 - 1
        pair == << tiles_by_grid[<<tiles[n].grid_x + sign, tiles[n].grid_y - k>>],
                   tiles_by_grid[<<tiles[n].grid_x + 2 * sign, tiles[n].grid_y - k>>] >>
    IN  IF k = 0 THEN <<tiles[n].name>> \o pair ELSE pair

\* C9: when make_segments has returned, every BRAM/DSP tile has exactly
\* five segments, k = 0..4, of frames=28 and words=2, segment k listing the
\* tiles at x+-1 and x+-2 of row y-k, segment 0 also, and first, the tile
\* itself; segment 0 holds the tile's measured addresses and the others none.
C9_BramDsp ==
    JustConstructed =>
        /\ \A n \in Anchors:
              \A k \in 0..4:
                  /\ Cardinality({s \in DOMAIN segments:
                                     segments[s].tiles = AnchorTiles(n, k)}) = 1
                  /\ \A s \in DOMAIN segments:
                        segments[s].tiles = AnchorTiles(n, k) =>
                            /\ segments[s].frames = 28
                            /\ segments[s].words = 2
                            /\ segments[s].baseaddr =
                                  IF k = 0 /\ tiles[n].name \in DOMAIN tile_baseaddrs
                                  THEN tile_baseaddrs[tiles[n].name]
                                  ELSE Absent
        /\ \A n \in Anchors:
              \A s \in DOMAIN segments:
                  tiles[n].name \in Range(segments[s].tiles) =>
                      segments[s].tiles = AnchorTiles(n, 0)
        /\ Cardinality({s \in DOMAIN segments: segments[s].frames = 28})
              = 5 * Cardinality(Anchors)

\* a measured BRAM/DSP tile and its five segments
C9_Witness ==
    /\ JustConstructed
    /\ \E n \in Anchors: tiles[n].name \in DOMAIN tile_baseaddrs
    /\ Cardinality(DOMAIN segments) = 5

(***************************************************************************)
(* C10: no segment is left without an address.                             *)
(***************************************************************************)
\* C10: once add_bits has returned, every segment holds a base address:
\* add_bits aborts the run on a segment without one.
C10_Resolved ==
    Annotated => \A s \in DOMAIN segments: segments[s].baseaddr # Absent

\* a run that wrote the database, with an HCLK segment and the segments
\* k = 1..4 of a BRAM tile
C10_Witness ==
    /\ pc = "done"
    /\ \E s \in DOMAIN segments: segments[s].frames = 26
    /\ \E s \in DOMAIN segments:
          segments[s].frames = 28 /\ Len(segments[s].tiles) = 2

Next == Index \/ MakeSegments \/ LrStep \/ UpSnapshot \/ UpSource \/ UpStep
    \/ AddBits \/ AnnotateSegments \/ Dump

Spec == Init /\ [][Next]_vars

====
